---- MODULE Spec2Model ----
(***************************************************************************)
(* lemoncake developer scripts.                                            *)
(*   check_header.py : validator of the 'kb00t!' boot-image header         *)
(*   utils.py        : init build, ramdisk staging, lcsrc.txt, hd.tar      *)
(* Characters and bytes are their integer codes; a text is a sequence of   *)
(* codes.                                                                  *)
(***************************************************************************)
EXTENDS Integers, Sequences, FiniteSets, TLC

VARIABLES
  \* check_header.py
  hpc,        \* position in check_header.py
  file,       \* the named file: [readable, bytes]
  data,       \* bytes read from the file
  correct,    \* the aggregate flag
  out,        \* lines printed on stdout, in order
  exitCode,   \* process exit status, -1 while running
  \* utils.py
  upc,        \* position in utils.py
  p,          \* platform.system()
  ret,        \* last value returned by os.system and kept in `ret`
  fs,         \* which paths exist
  tree,       \* kernel/src: relative path -> raw content (or Unreadable)
  files,      \* the sorted list `files`
  idx,        \* loop position in `files`
  lcsrc,      \* content of target/ramdisk/lcsrc.txt
  calls,      \* external commands run so far, in order
  diag,       \* init-build diagnostics printed so far
  uexit       \* exit status of utils.py, -1 while running

hvars == <<hpc, file, data, correct, out, exitCode>>
uvars == <<upc, p, ret, fs, tree, files, idx, lcsrc, calls, diag, uexit>>
vars == <<hpc, file, data, correct, out, exitCode,
          upc, p, ret, fs, tree, files, idx, lcsrc, calls, diag, uexit>>

----------------------------------------------------------------------------
\* Bounds of the explored inputs.
MaxPayload == 2
MaxContent == 2
MaxFiles == 2

----------------------------------------------------------------------------
\* Generic helpers.
Min(a, b) == IF a < b THEN a ELSE b
Max(a, b) == IF a > b THEN a ELSE b

\* Python slice s[i:j] of a sequence (0-based, clipped to the length).
Slice(s, i, j) == SubSeq(s, i + 1, Min(j, Len(s)))

\* All sequences over S of length at most n.
SeqsUpTo(S, n) == UNION {[1..k -> S] : k \in 0..n}

\* Character codes.
LF == 10
CR == 13
QUOTE == 39
DQUOTE == 34
BACKSLASH == 92
SLASH == 47
SPACE == 32
ChB == 98
ChX == 120
Ch0 == 48
ChT == 116
ChN == 110
ChR == 114
ChA == 97
TAB == 9
DEL == 127

----------------------------------------------------------------------------
\* check_header.py

\* b"kb00t!"
Magic == <<107, 98, 48, 48, 116, 33>>

\* bytes.startswith(prefix)
StartsWith(s, prefix) == Len(s) >= Len(prefix) /\ SubSeq(s, 1, Len(prefix)) = prefix

\* A bytes object compared with an int (data[6:7] == 0x0000): the types
\* differ, so Python's == is False whatever the bytes are.
BytesEqInt(b, n) == FALSE

\* Lowercase hexadecimal digit of d in 0..15.
HexDigit(d) == IF d < 10 THEN Ch0 + d ELSE ChA + (d - 10)

\* Lowercase hexadecimal digits of n >= 0, without leading zeros ("0" for 0).
RECURSIVE HexDigits(_)
HexDigits(n) == IF n < 16 THEN <<HexDigit(n)>>
                ELSE HexDigits(n \div 16) \o <<HexDigit(n % 16)>>

Zeros(k) == [i \in 1..k |-> Ch0]

\* f"{n:#010x}": "0x", then the digits zero-padded so that the whole is at
\* least 10 characters wide.
\* Variant: the format spec #x, without the zero padding.
FormatHexUnpadded(n) == <<Ch0, ChX>> \o HexDigits(n)
FormatHex010(n) ==
  LET d == HexDigits(n)
  IN <<Ch0, ChX>> \o Zeros(Max(0, 10 - 2 - Len(d))) \o d

\* int.from_bytes(b, byteorder='big'); 0 for the empty sequence.
RECURSIVE IntFromBytesBig(_)
IntFromBytesBig(b) ==
  IF b = <<>> THEN 0
  ELSE 256 * IntFromBytesBig(SubSeq(b, 1, Len(b) - 1)) + b[Len(b)]

\* One byte inside repr(bytes) delimited by quote character q.
ReprByte(c, q) ==
  IF c = q \/ c = BACKSLASH THEN <<BACKSLASH, c>>
  ELSE IF c = TAB THEN <<BACKSLASH, ChT>>
  ELSE IF c = LF THEN <<BACKSLASH, ChN>>
  ELSE IF c = CR THEN <<BACKSLASH, ChR>>
  ELSE IF c < SPACE \/ c >= DEL
       THEN <<BACKSLASH, ChX, HexDigit(c \div 16), HexDigit(c % 16)>>
  ELSE <<c>>

RECURSIVE Flatten(_)
Flatten(ss) == IF ss = <<>> THEN <<>> ELSE Head(ss) \o Flatten(Tail(ss))

Contains(s, c) == \E i \in 1..Len(s) : s[i] = c

\* str(b) of a bytes object: b'...' (b"..." when the bytes hold ' and no ").
StrBytes(b) ==
  LET q == IF Contains(b, QUOTE) /\ ~Contains(b, DQUOTE) THEN DQUOTE ELSE QUOTE
  IN <<ChB, q>> \o Flatten([i \in 1..Len(b) |-> ReprByte(b[i], q)]) \o <<q>>

\* str.lstrip(chars) / str.rstrip(chars)
RECURSIVE Lstrip(_, _)
Lstrip(s, chars) ==
  IF s # <<>> /\ Head(s) \in chars THEN Lstrip(Tail(s), chars) ELSE s
RECURSIVE Rstrip(_, _)
Rstrip(s, chars) ==
  IF s # <<>> /\ s[Len(s)] \in chars
  THEN Rstrip(SubSeq(s, 1, Len(s) - 1), chars) ELSE s

\* str(data[6:7]).lstrip("b'\\x").rstrip("'")
VersionText(b) ==
  Rstrip(Lstrip(StrBytes(b), {ChB, QUOTE, BACKSLASH, ChX}), {QUOTE})

\* A printed line: the mark, the fixed text, the formatted part.
Line(ok, msg, arg) == [ok |-> ok, msg |-> msg, arg |-> arg]

\* with open(path, 'rb') as f: data = f.read()
\* An unreadable path raises out of open(); nothing catches it, the
\* interpreter prints a traceback and ends with status 1.
\* Variant: an unreadable file read as an empty one.
OpenLenient ==
  /\ hpc = "open"
  /\ data' = (IF file.readable THEN file.bytes ELSE <<>>)
  /\ hpc' = "size"
  /\ UNCHANGED <<file, correct, out, exitCode>>
  /\ UNCHANGED uvars
Open ==
  /\ hpc = "open"
  /\ IF file.readable
     THEN /\ data' = file.bytes
          /\ hpc' = "size"
          /\ UNCHANGED exitCode
     ELSE /\ hpc' = "crashed"
          /\ exitCode' = 1
          /\ UNCHANGED data
  /\ UNCHANGED <<file, correct, out>>
  /\ UNCHANGED uvars

\* if len(data) < 13
SizeCheck ==
  /\ hpc = "size"
  /\ IF Len(data) < 13
     THEN /\ out' = Append(out, Line(FALSE, "File too small", <<>>))
          /\ correct' = FALSE
     ELSE /\ out' = Append(out, Line(TRUE, "Header size is valid", <<>>))
          /\ UNCHANGED correct
  /\ hpc' = "magic"
  /\ UNCHANGED <<file, data, exitCode>>
  /\ UNCHANGED uvars

\* if data.startswith(b"kb00t!")
MagicCheck ==
  /\ hpc = "magic"
  /\ IF StartsWith(data, Magic)
     THEN /\ out' = Append(out, Line(TRUE, "Found magic", <<>>))
          /\ UNCHANGED correct
     ELSE /\ out' = Append(out, Line(FALSE, "Magic not found", <<>>))
          /\ correct' = FALSE
  /\ hpc' = "version"
  /\ UNCHANGED <<file, data, exitCode>>
  /\ UNCHANGED uvars

\* if data[6:7] == b"\x01" ... elif data[6:7] == 0x0000 ... else
VersionCheck ==
  /\ hpc = "version"
  /\ IF Slice(data, 6, 7) = <<1>>
     THEN /\ out' = Append(out, Line(TRUE, "Found version: 01", <<>>))
          /\ UNCHANGED correct
     ELSE IF BytesEqInt(Slice(data, 6, 7), 0)
     THEN /\ out' = Append(out, Line(FALSE, "Version not found", <<>>))
          /\ correct' = FALSE
     ELSE /\ out' = Append(out, Line(FALSE, "Found incorrect version: ",
                                     VersionText(Slice(data, 6, 7))))
          /\ correct' = FALSE
  /\ hpc' = "entry"
  /\ UNCHANGED <<file, data, exitCode>>
  /\ UNCHANGED uvars

\* if data[8:12] != b"\x00\x00\x00\x00"
EntryCheck ==
  /\ hpc = "entry"
  /\ IF Slice(data, 8, 12) # <<0, 0, 0, 0>>
     THEN /\ out' = Append(out, Line(TRUE, "Found kernel entry point address: ",
                                     FormatHex010(IntFromBytesBig(Slice(data, 8, 12)))))
          /\ UNCHANGED correct
     ELSE /\ out' = Append(out, Line(FALSE, "Entry point address not found", <<>>))
          /\ correct' = FALSE
  /\ hpc' = "exit"
  /\ UNCHANGED <<file, data, exitCode>>
  /\ UNCHANGED uvars

\* if not correct: sys.exit(1); otherwise the script ends, status 0.
\* Variant: the script ends with status 0 whatever `correct` is.
ExitAlwaysZero ==
  /\ hpc = "exit"
  /\ exitCode' = 0
  /\ hpc' = "done"
  /\ UNCHANGED <<file, data, correct, out>>
  /\ UNCHANGED uvars
Exit ==
  /\ hpc = "exit"
  /\ exitCode' = (IF ~correct THEN 1 ELSE 0)
  /\ hpc' = "done"
  /\ UNCHANGED <<file, data, correct, out>>
  /\ UNCHANGED uvars

----------------------------------------------------------------------------
\* utils.py

LINUX == "Linux"
WINDOWS == "Windows"
MAC == "Darwin"
Platforms == {LINUX, MAC, WINDOWS, "FreeBSD"}

\* Exit codes an external command may end with (127: the shell found no
\* such command).
ExitCodes == {0, 1, 127}

\* os.system(cmd): the command's exit code on Windows, the wait status
\* (exit code in the high byte) elsewhere.
OsSystem(plat, code) == IF plat = WINDOWS THEN code ELSE code * 256

\* Paths the script tests or writes.
INIT == "init"
INITO == "init.o"
HDIMG == "hd.img"
RAMDISK == "target/ramdisk"
LOREM == "target/ramdisk/lorem.txt"
STAGED == "target/ramdisk/init"
LCSRC == "target/ramdisk/lcsrc.txt"
SRC == "kernel/src"
\* Variant: the archive written over the disk image.
TarOutputImg == "hd.img"
TarOutput == "hd.tar"
Paths == {INIT, INITO, HDIMG, "hd.tar", RAMDISK, LOREM, STAGED, LCSRC, SRC}

\* fs[path]: "absent", "present" (there since before the run, untouched) or
\* "written" (created or rewritten by the run).
Exists(path) == fs[path] # "absent"
Written(f, path) == [f EXCEPT ![path] = "written"]

Call(cmd, code) == [cmd |-> cmd, status |-> code]
Called(cmd) == \E i \in 1..Len(calls) : calls[i].cmd = cmd

\* p = platform.system(); the banner and the unsupported-platform warning.
Banner ==
  /\ upc = "start"
  /\ diag' = (IF p # LINUX /\ p # MAC
              THEN Append(diag, "WARN unsupported OS") ELSE diag)
  /\ upc' = "rustup"
  /\ UNCHANGED <<p, ret, fs, tree, files, idx, lcsrc, calls, uexit>>
  /\ UNCHANGED hvars

\* os.system("rustup target add ... && rustup component add ..."); the
\* returned status is dropped.
Rustup ==
  /\ upc = "rustup"
  /\ \E code \in ExitCodes : calls' = Append(calls, Call("rustup", code))
  /\ upc' = "nasm"
  /\ UNCHANGED <<p, ret, fs, tree, files, idx, lcsrc, diag, uexit>>
  /\ UNCHANGED hvars

\* ret = os.system("nasm -felf64 init.asm") and the branches on ret that do
\* not run the linker.
NasmRun ==
  \E code \in ExitCodes :
    /\ calls' = Append(calls, Call("nasm", code))
    /\ ret' = OsSystem(p, code)
    /\ fs' = (IF code = 0 THEN Written(fs, INITO) ELSE fs)
    /\ IF ret' = 0
       THEN /\ IF p # WINDOWS
               THEN /\ diag' = Append(diag, "Successfully compiled the init program!")
                    /\ upc' = "ld"
               ELSE /\ diag' = diag \o
                         << "Successfully compiled the init program!",
                            "Please run this install script under Linux." >>
                    /\ upc' = "mkdir"
       ELSE IF ret' = 127
       THEN /\ diag' = Append(diag, "Please install nasm to compile the init program!")
            /\ upc' = "mkdir"
       ELSE /\ diag' = Append(diag, "Unable to compile the init program!")
            /\ upc' = "mkdir"
\* Variant: the assembler run guarded by the existence of init.
NasmIfNoInit ==
  /\ upc = "nasm"
  /\ IF Exists(INIT)
     THEN upc' = "mkdir" /\ UNCHANGED <<calls, ret, fs, diag>>
     ELSE NasmRun
  /\ UNCHANGED <<p, tree, files, idx, lcsrc, uexit>>
  /\ UNCHANGED hvars
Nasm ==
  /\ upc = "nasm"
  /\ NasmRun
  /\ UNCHANGED <<p, tree, files, idx, lcsrc, uexit>>
  /\ UNCHANGED hvars

\* ret = os.system("ld -o init init.o") and the branches on ret.
Ld ==
  /\ upc = "ld"
  /\ \E code \in ExitCodes :
       /\ calls' = Append(calls, Call("ld", code))
       /\ ret' = OsSystem(p, code)
       /\ fs' = (IF code = 0 THEN Written(fs, INIT) ELSE fs)
       /\ diag' = Append(diag,
            IF ret' = 0 THEN "Successfully linked the init program!"
            ELSE IF ret' = 127 THEN "Please install ld! It's part of binutils."
            ELSE "Failed to link the init prorgam!")
  /\ upc' = "mkdir"
  /\ UNCHANGED <<p, tree, files, idx, lcsrc, uexit>>
  /\ UNCHANGED hvars

\* os.system("mkdir -p target/ramdisk"); the returned status is dropped. A
\* failed mkdir creates nothing.
Mkdir ==
  /\ upc = "mkdir"
  /\ \E code \in ExitCodes :
       /\ calls' = Append(calls, Call("mkdir", code))
       /\ fs' = (IF code = 0 /\ ~Exists(RAMDISK) THEN Written(fs, RAMDISK) ELSE fs)
  /\ upc' = "lorem"
  /\ UNCHANGED <<p, ret, tree, files, idx, lcsrc, diag, uexit>>
  /\ UNCHANGED hvars

\* if not os.path.exists(lorem.txt): open(lorem.txt, "w").write(...)
\* open() raises FileNotFoundError when target/ramdisk does not exist;
\* nothing catches it and the interpreter ends with status 1.
Lorem ==
  /\ upc = "lorem"
  /\ IF Exists(LOREM)
     THEN /\ upc' = "cp"
          /\ UNCHANGED <<fs, uexit>>
     ELSE IF Exists(RAMDISK)
     THEN /\ fs' = Written(fs, LOREM)
          /\ upc' = "cp"
          /\ UNCHANGED uexit
     ELSE /\ upc' = "crashed"
          /\ uexit' = 1
          /\ UNCHANGED fs
  /\ UNCHANGED <<p, ret, tree, files, idx, lcsrc, calls, diag>>
  /\ UNCHANGED hvars

\* if not os.path.exists("target/ramdisk/init"): os.system("cp init target/ramdisk/")
\* cp can succeed only when there is an init to copy.
CopyInit ==
  /\ upc = "cp"
  /\ IF Exists(STAGED)
     THEN UNCHANGED <<calls, fs>>
     ELSE \E code \in ExitCodes :
            /\ code = 0 => Exists(INIT)
            /\ calls' = Append(calls, Call("cp", code))
            /\ fs' = (IF code = 0 THEN Written(fs, STAGED) ELSE fs)
  /\ upc' = "checksrc"
  /\ UNCHANGED <<p, ret, tree, files, idx, lcsrc, diag, uexit>>
  /\ UNCHANGED hvars

\* output_path.parent.mkdir(parents=True, exist_ok=True);
\* if not src_path.exists(): sys.exit(1)
CheckSrc ==
  /\ upc = "checksrc"
  /\ fs' = (IF Exists(RAMDISK) THEN fs ELSE Written(fs, RAMDISK))
  /\ IF ~Exists(SRC)
     THEN /\ upc' = "aborted"
          /\ uexit' = 1
     ELSE /\ upc' = "list"
          /\ UNCHANGED uexit
  /\ UNCHANGED <<p, ret, tree, files, idx, lcsrc, calls, diag>>
  /\ UNCHANGED hvars

\* Python's < on str: by code point, a proper prefix first.
RECURSIVE StrLess(_, _)
StrLess(a, b) ==
  IF b = <<>> THEN FALSE
  ELSE IF a = <<>> THEN TRUE
  ELSE IF a[1] # b[1] THEN a[1] < b[1]
  ELSE StrLess(Tail(a), Tail(b))

\* pathlib's < on two paths: their lists of components compared as Python
\* compares lists, component by component, each as a str.
RECURSIVE Join(_)
Join(parts) ==
  IF Len(parts) = 1 THEN parts[1]
  ELSE parts[1] \o <<SLASH>> \o Join(Tail(parts))
\* Variant: paths compared as whole strings.
PathLessByString(a, b) == StrLess(Join(a), Join(b))
RECURSIVE PathLess(_, _)
PathLess(a, b) ==
  IF b = <<>> THEN FALSE
  ELSE IF a = <<>> THEN TRUE
  ELSE IF a[1] # b[1] THEN StrLess(a[1], b[1])
  ELSE PathLess(Tail(a), Tail(b))

\* The components of Path("kernel/src").
SrcParts == << <<107, 101, 114, 110, 101, 108>>, <<115, 114, 99>> >>

\* A file found by src_path.rglob('*'): its full path is
\* kernel/src/<rel>; file_path.relative_to(src_path) is rel.
FullParts(f) == SrcParts \o f.rel

\* sorted(): the entries of `list` in ascending order of their paths.
RECURSIVE Insert(_, _)
Insert(f, sorted) ==
  IF sorted = <<>> THEN <<f>>
  ELSE IF PathLess(FullParts(f), FullParts(Head(sorted))) THEN <<f>> \o sorted
  ELSE <<Head(sorted)>> \o Insert(f, Tail(sorted))
RECURSIVE Sorted(_)
Sorted(list) ==
  IF list = <<>> THEN <<>> ELSE Insert(Head(list), Sorted(Tail(list)))

\* The orders in which rglob may enumerate the files of the tree.
Enumerations(t) ==
  {e \in [1..Cardinality(t) -> t] : \A i, j \in 1..Cardinality(t) : i # j => e[i] # e[j]}

\* files = sorted([f for f in src_path.rglob('*') if f.is_file()]);
\* if not files: sys.exit(1)
ListFiles ==
  /\ upc = "list"
  /\ \E e \in Enumerations(tree) : files' = Sorted(e)
  /\ IF files' = <<>>
     THEN upc' = "aborted" /\ uexit' = 1
     ELSE upc' = "open" /\ UNCHANGED uexit
  /\ UNCHANGED <<p, ret, fs, tree, idx, lcsrc, calls, diag>>
  /\ UNCHANGED hvars

\* with open("target/ramdisk/lcsrc.txt", 'w', encoding='utf-8') as out
OpenOut ==
  /\ upc = "open"
  /\ lcsrc' = <<>>
  /\ fs' = Written(fs, LCSRC)
  /\ idx' = 1
  /\ upc' = "loop"
  /\ UNCHANGED <<p, ret, tree, files, calls, diag, uexit>>
  /\ UNCHANGED hvars

\* Reading in text mode (newline=None): "\r\n" and a lone "\r" both come
\* back as "\n".
RECURSIVE UniversalNewlines(_)
UniversalNewlines(raw) ==
  IF raw = <<>> THEN <<>>
  ELSE IF raw[1] = CR
       THEN IF Len(raw) >= 2 /\ raw[2] = LF
            THEN <<LF>> \o UniversalNewlines(SubSeq(raw, 3, Len(raw)))
            ELSE <<LF>> \o UniversalNewlines(Tail(raw))
  ELSE <<raw[1]>> \o UniversalNewlines(Tail(raw))

\* Writing in text mode (newline=None): "\n" goes out as os.linesep.
RECURSIVE WriteText(_, _)
WriteText(plat, text) ==
  IF text = <<>> THEN <<>>
  ELSE (IF text[1] = LF /\ plat = WINDOWS THEN <<CR, LF>> ELSE <<text[1]>>)
         \o WriteText(plat, Tail(text))

\* f"// {rel_path}\n"; a path prints with the platform's separator.
HeaderLine(plat, rel) ==
  LET sep == IF plat = WINDOWS THEN BACKSLASH ELSE SLASH
      RECURSIVE J(_)
      J(parts) == IF Len(parts) = 1 THEN parts[1]
                  ELSE parts[1] \o <<sep>> \o J(Tail(parts))
  IN <<SLASH, SLASH, SPACE>> \o J(rel) \o <<LF>>

\* f"// Error reading file: {e}\n\n"; the exception's text is not modelled,
\* ErrorText stands for "Error reading file: <e>".
ErrorText == <<69, 114, 114>>
ErrorLine == <<SLASH, SLASH, SPACE>> \o ErrorText \o <<LF, LF>>

\* content.endswith('\n')
EndsWithLF(content) == content # <<>> /\ content[Len(content)] = LF

\* What one iteration of the loop writes for file f.
EntryText(plat, f) ==
  HeaderLine(plat, f.rel) \o
    (IF f.readable
     THEN LET content == UniversalNewlines(f.raw)
          IN content
               \o (IF content # <<>> /\ ~EndsWithLF(content) THEN <<LF>> ELSE <<>>)
               \o <<LF>>
     ELSE ErrorLine)

\* for file_path in files: ... ; leaving the with block closes the file.
WriteEntry ==
  /\ upc = "loop"
  /\ IF idx <= Len(files)
     THEN /\ lcsrc' = lcsrc \o WriteText(p, EntryText(p, files[idx]))
          /\ idx' = idx + 1
          /\ UNCHANGED upc
     ELSE /\ upc' = "tar"
          /\ UNCHANGED <<lcsrc, idx>>
  /\ UNCHANGED <<p, ret, fs, tree, files, calls, diag, uexit>>
  /\ UNCHANGED hvars

\* os.system("cd target/ramdisk/ && tar cvf ../../hd.tar *"); the script
\* ends after it, status 0.
Tar ==
  /\ upc = "tar"
  /\ \E code \in ExitCodes :
       /\ calls' = Append(calls, Call("tar", code))
       /\ fs' = (IF code = 0 THEN Written(fs, TarOutput) ELSE fs)
  /\ upc' = "done"
  /\ uexit' = 0
  /\ UNCHANGED <<p, ret, tree, files, idx, lcsrc, diag>>
  /\ UNCHANGED hvars

----------------------------------------------------------------------------
\* Explored inputs and specifications

\* Inputs explored for check_header.py: every prefix of
\* magic ++ version ++ reserved ++ entry point ++ payload over small byte
\* sets, every version byte 0..255 inside an otherwise valid image, and an
\* unreadable path.
MagicChoices == {Magic, <<107, 98, 48, 48, 116, 63>>, <<75, 98, 48, 48, 116, 33>>}
VersionChoices == {0, 1, 2, ChB}
ReservedChoices == {0, 255}
\* The most significant entry-point byte stays below 128: the model
\* checker's integers are 32-bit signed.
EntryTopChoices == {0, 16, 127}
EntryByteChoices == {0, 16, 171}
PayloadChoices == SeqsUpTo({0, 255}, MaxPayload)

Images ==
  {m \o <<v, r>> \o e \o pl :
     m \in MagicChoices, v \in VersionChoices, r \in ReservedChoices,
     e \in {<<t>> \o l : t \in EntryTopChoices, l \in [1..3 -> EntryByteChoices]},
     pl \in PayloadChoices}

VersionSweep == {Magic \o <<v, 0, 0, 16, 0, 0, 0>> : v \in 0..255}

\* The file named on the command line.
HeaderFile(f) ==
  \/ \E img \in Images, n \in 0..(12 + MaxPayload) :
       n <= Len(img) /\ f = [readable |-> TRUE, bytes |-> SubSeq(img, 1, n)]
  \/ \E img \in VersionSweep : f = [readable |-> TRUE, bytes |-> img]
  \/ f = [readable |-> FALSE, bytes |-> <<>>]

\* What an lcsrc.txt left by an earlier run holds.
StaleLcsrc == <<SLASH, SLASH, SPACE, ChX, LF, LF>>

InitialFs(present) == [q \in Paths |-> IF q \in present THEN "present" ELSE "absent"]

\* utils.py is not running while check_header.py is explored.
UtilsIdle ==
  /\ upc = "idle" /\ p = LINUX /\ ret = 0 /\ fs = InitialFs({}) /\ tree = {}
  /\ files = <<>> /\ idx = 0 /\ lcsrc = <<>> /\ calls = <<>> /\ diag = <<>>
  /\ uexit = -1

Init ==
  /\ hpc = "open"
  /\ HeaderFile(file)
  /\ data = <<>>
  /\ correct = TRUE
  /\ out = <<>>
  /\ exitCode = -1
  /\ UtilsIdle

Next == Open \/ SizeCheck \/ MagicCheck \/ VersionCheck \/ EntryCheck \/ Exit

Spec == Init /\ [][Next]_vars

\* File names and contents explored for kernel/src.
NameADotB == <<ChA, 46, ChB>>
RelChoices == { <<NameADotB>>, << <<ChA>>, <<ChB>> >>, << <<ChB>> >> }
BodyChoices ==
  {[raw |-> c, readable |-> TRUE] : c \in SeqsUpTo({ChX, LF, CR}, MaxContent)}
    \cup {[raw |-> <<255>>, readable |-> FALSE]}

TreeOf(rels, body) ==
  {[rel |-> r, raw |-> body[r].raw, readable |-> body[r].readable] : r \in rels}

\* A tree of at most MaxFiles files.
LcsrcTree(t) ==
  \E rels \in SUBSET RelChoices :
    /\ Cardinality(rels) <= MaxFiles
    /\ \E body \in [rels -> BodyChoices] : t = TreeOf(rels, body)

AsmTrees ==
  { {},
    {[rel |-> <<NameADotB>>, raw |-> <<ChX>>, readable |-> TRUE]},
    {[rel |-> <<NameADotB>>, raw |-> <<ChX, LF>>, readable |-> TRUE],
     [rel |-> << <<ChA>>, <<ChB>> >>, raw |-> <<255>>, readable |-> FALSE]} }

\* check_header.py is not running while utils.py is explored.
HeaderIdle ==
  /\ hpc = "idle" /\ file = [readable |-> FALSE, bytes |-> <<>>] /\ data = <<>>
  /\ correct = TRUE /\ out = <<>> /\ exitCode = -1

\* The staging directory before the run: nothing, the bare directory, or the
\* directory with some of its files from an earlier run.
RamdiskChoices ==
  { {}, {RAMDISK}, {RAMDISK, LOREM}, {RAMDISK, STAGED}, {RAMDISK, LOREM, STAGED, LCSRC} }

InitAsm ==
  /\ HeaderIdle
  /\ upc = "start"
  /\ p \in Platforms
  /\ ret = 0
  /\ \E i \in SUBSET {INIT, HDIMG}, r \in RamdiskChoices, s \in SUBSET {SRC} :
       fs = InitialFs(i \cup r \cup s)
  /\ tree \in (IF Exists(SRC) THEN AsmTrees ELSE {{}})
  /\ lcsrc = (IF Exists(LCSRC) THEN StaleLcsrc ELSE <<>>)
  /\ files = <<>> /\ idx = 0 /\ calls = <<>> /\ diag = <<>>
  /\ uexit = -1

NextAsm ==
  \/ Banner \/ Rustup \/ Nasm \/ Ld \/ Mkdir \/ Lorem \/ CopyInit
  \/ CheckSrc \/ ListFiles \/ OpenOut \/ WriteEntry \/ Tar

SpecAsm == InitAsm /\ [][NextAsm]_vars

\* The lcsrc.txt generation by itself, on a POSIX host, from the point where
\* the staging directory is in place and holds the lcsrc.txt of an earlier
\* run, over every explored kernel/src tree.
InitLcsrc ==
  /\ HeaderIdle
  /\ upc = "checksrc"
  /\ p = LINUX
  /\ ret = 0
  /\ fs = InitialFs({RAMDISK, LOREM, STAGED, LCSRC, SRC})
  /\ LcsrcTree(tree)
  /\ lcsrc = StaleLcsrc
  /\ files = <<>> /\ idx = 0 /\ calls = <<>> /\ diag = <<>>
  /\ uexit = -1

NextLcsrc == CheckSrc \/ ListFiles \/ OpenOut \/ WriteEntry

SpecLcsrc == InitLcsrc /\ [][NextLcsrc]_vars

----------------------------------------------------------------------------
\* Properties of check_header.py

HexVal(c) == IF c \in 48..57 THEN c - 48
             ELSE IF c \in 97..102 THEN c - 87 ELSE -1

RECURSIVE ParseHex(_)
ParseHex(s) ==
  IF s = <<>> THEN 0 ELSE 16 * ParseHex(SubSeq(s, 1, Len(s) - 1)) + HexVal(s[Len(s)])

\* "0x" followed by exactly eight lowercase hexadecimal digits.
IsHexAddress(s) ==
  /\ Len(s) = 10
  /\ s[1] = 48 /\ s[2] = 120
  /\ \A i \in 3..10 : HexVal(s[i]) >= 0

AddressValue(s) == ParseHex(SubSeq(s, 3, Len(s)))

\* The big-endian unsigned value held in bytes 8..11 of d (Len(d) >= 12).
EntryPointOf(d) ==
  d[9] * 16777216 + d[10] * 65536 + d[11] * 256 + d[12]

SizeMsgs == {"File too small", "Header size is valid"}
MagicMsgs == {"Found magic", "Magic not found"}
VersionMsgs == {"Found version: 01", "Version not found", "Found incorrect version: "}
EntryMsgs == {"Found kernel entry point address: ", "Entry point address not found"}

\* C1: every run over a readable file prints one line for each of the four
\* checks (size, magic, version, entry point), whatever the earlier ones
\* found, and ends with status 0 exactly when all four passed and with
\* status 1 exactly when at least one failed.
C1_ExitCodeIffAllChecksPass ==
  hpc = "done" =>
    /\ Len(out) = 4
    /\ out[1].msg \in SizeMsgs /\ out[2].msg \in MagicMsgs
    /\ out[3].msg \in VersionMsgs /\ out[4].msg \in EntryMsgs
    /\ (out[1].ok <=> Len(data) >= 13)
    /\ (out[2].ok <=> (Len(data) >= 6 /\ \A i \in 1..6 : data[i] = Magic[i]))
    /\ (exitCode = 0 <=> \A i \in 1..4 : out[i].ok)
    /\ (exitCode = 1 <=> \E i \in 1..4 : ~out[i].ok)

\* C1 witness: a finished run whose first check failed and whose last check
\* was still evaluated and failed too.
C1_Witness ==
  /\ hpc = "done" /\ exitCode = 1
  /\ Len(out) = 4 /\ ~out[1].ok /\ out[2].ok /\ ~out[4].ok

\* A well-formed 12-byte header at the start of d.
WellFormedHeader(d) ==
  /\ Len(d) >= 12
  /\ SubSeq(d, 1, 6) = Magic
  /\ d[7] = 1
  /\ EntryPointOf(d) # 0

\* C2 as stated: a well-formed header followed by a payload of any length
\* (the empty payload included) validates as fully valid.
C2_AnyPayloadValid ==
  (hpc = "done" /\ WellFormedHeader(data)) =>
    (exitCode = 0 /\ \A i \in 1..4 : out[i].ok)

\* C2 amended: a well-formed header followed by at least one payload byte
\* validates as fully valid, and the entry point is reported as "0x" and the
\* eight lowercase hexadecimal digits of the big-endian value of bytes 8..11.
C2_NonEmptyPayloadValid ==
  (hpc = "done" /\ WellFormedHeader(data) /\ Len(data) >= 13) =>
    /\ exitCode = 0
    /\ \A i \in 1..4 : out[i].ok
    /\ out[4].msg = "Found kernel entry point address: "
    /\ IsHexAddress(out[4].arg)
    /\ AddressValue(out[4].arg) = EntryPointOf(data)

\* C2 witness: the header with entry point 0x00100000, a nonzero reserved
\* byte and a two-byte payload has been validated.
C2_Witness ==
  /\ hpc = "done"
  /\ Len(data) = 14
  /\ WellFormedHeader(data)
  /\ data[8] = 255
  /\ EntryPointOf(data) = 1048576
  /\ exitCode = 0

\* The decimal digits of n >= 0.
RECURSIVE DecDigits(_)
DecDigits(n) == IF n < 10 THEN <<48 + n>>
                ELSE DecDigits(n \div 10) \o <<48 + (n % 10)>>

\* Readable numeric renderings of a byte value: decimal, hexadecimal with or
\* without a leading zero, each with or without a "0x" prefix.
NumericForms(v) ==
  LET h2 == <<HexDigit(v \div 16), HexDigit(v % 16)>>
      base == {DecDigits(v), HexDigits(v), h2}
  IN base \cup {<<48, 120>> \o s : s \in base}

\* C3: once the version check has run on an input of full header size that
\* starts with the magic, value 1 of byte 6 passed, value 0 was reported as
\* "Version not found", and every other value was reported as an incorrect
\* version together with the value in a readable numeric form.
C3_VersionClassification ==
  (hpc \in {"entry", "exit", "done"} /\ Len(data) >= 13 /\ StartsWith(data, Magic)) =>
    LET v == data[7] IN
      /\ (v = 1 => out[3] = Line(TRUE, "Found version: 01", <<>>))
      /\ (v = 0 => out[3] = Line(FALSE, "Version not found", <<>>))
      /\ (v \notin {0, 1} =>
            /\ ~out[3].ok
            /\ out[3].msg = "Found incorrect version: "
            /\ out[3].arg \in NumericForms(v))

\* C4: whenever the entry-point pass line is printed the input has bytes
\* 8..11 and the reported address is their nonzero big-endian value, and
\* whenever bytes 8..11 are all zero the entry point is reported missing and
\* the run ends invalid.
C4_EntryPointNonzero ==
  hpc = "done" =>
    /\ (out[4].ok =>
          /\ Len(data) >= 12
          /\ EntryPointOf(data) # 0
          /\ IsHexAddress(out[4].arg)
          /\ AddressValue(out[4].arg) = EntryPointOf(data))
    /\ ((Len(data) >= 12 /\ EntryPointOf(data) = 0) =>
          /\ out[4] = Line(FALSE, "Entry point address not found", <<>>)
          /\ exitCode = 1)

\* C5: an unreadable file ends the run in the crashed outcome: a nonzero
\* status and no check line printed, whereas every run over a readable file
\* ends after printing its four check lines; the two kinds of ending never
\* coincide.
C5_IoErrorDistinct ==
  /\ (hpc \in {"crashed", "done"} /\ ~file.readable) =>
        (hpc = "crashed" /\ exitCode # 0 /\ out = <<>>)
  /\ (hpc \in {"crashed", "done"} /\ file.readable) =>
        (hpc = "done" /\ Len(out) = 4 /\ exitCode \in {0, 1})

\* C5 witness: the run over an unreadable file has ended.
C5_Witness == hpc = "crashed" /\ ~file.readable /\ exitCode = 1

----------------------------------------------------------------------------
\* Properties of utils.py

Ended == upc \in {"done", "aborted", "crashed"}
NoSources == ~Exists(SRC) \/ tree = {}

\* C6: the run ends with status 1 exactly when kernel/src is absent or holds
\* no file, whatever the platform and the external commands' exit codes; a
\* run that does not end so ends with the tar call as its last step, and one
\* that does has neither written lcsrc.txt nor run tar.
C6_AbortOnlyWithoutSources ==
  Ended =>
    /\ (uexit # 0 <=> NoSources)
    /\ (uexit = 0 => (calls # <<>> /\ calls[Len(calls)].cmd = "tar"))
    /\ (uexit # 0 => (fs[LCSRC] # "written" /\ ~Called("tar")))

C9_BuildSkippedWhenInitExists ==
  fs[INIT] = "present" => (~Called("nasm") /\ ~Called("ld"))

\* C9 amended: nasm is invoked once on every run, whether or not init
\* exists; ld is invoked only directly after a nasm run that ended with exit
\* code 0, and only when the platform is not Windows.
C9_NasmAlwaysLdAfterSuccess ==
  /\ (upc \notin {"idle", "start", "rustup", "nasm"} =>
        Cardinality({i \in 1..Len(calls) : calls[i].cmd = "nasm"}) = 1)
  /\ \A i \in 1..Len(calls) :
       calls[i].cmd = "ld" =>
         /\ p # WINDOWS
         /\ i > 1
         /\ calls[i - 1] = Call("nasm", 0)

\* C9 witness: init existed before the run and is untouched, yet both nasm
\* and ld have been invoked.
C9_Witness ==
  /\ fs[INIT] = "present"
  /\ Called("nasm")
  /\ Called("ld")

DiagSet == {diag[i] : i \in 1..Len(diag)}

\* C10: each exit code of nasm and of ld gets its own diagnostic: 0 the
\* success message, 127 the "Please install" message, any other code the
\* generic failure message.
C10_ExitCodeDiagnostics ==
  \A i \in 1..Len(calls) :
    /\ calls[i].cmd = "nasm" =>
         (IF calls[i].status = 0
            THEN "Successfully compiled the init program!"
          ELSE IF calls[i].status = 127
            THEN "Please install nasm to compile the init program!"
          ELSE "Unable to compile the init program!") \in DiagSet
    /\ calls[i].cmd = "ld" =>
         (IF calls[i].status = 0
            THEN "Successfully linked the init program!"
          ELSE IF calls[i].status = 127
            THEN "Please install ld! It's part of binutils."
          ELSE "Failed to link the init prorgam!") \in DiagSet

\* a < b for two strings, by code point.
StringBefore(a, b) ==
  \E k \in 1..Len(b) :
    /\ k - 1 <= Len(a)
    /\ \A i \in 1..(k - 1) : a[i] = b[i]
    /\ (k = Len(a) + 1 \/ (k <= Len(a) /\ a[k] < b[k]))

\* a < b for two relative paths compared component by component.
ComponentsBefore(a, b) ==
  \E k \in 1..Len(b) :
    /\ k - 1 <= Len(a)
    /\ \A i \in 1..(k - 1) : a[i] = b[i]
    /\ (k = Len(a) + 1 \/ (k <= Len(a) /\ StringBefore(a[k], b[k])))

\* "a/b/c" for the components a, b, c.
RelString(rel) ==
  LET RECURSIVE R(_)
      R(i) == IF i = Len(rel) THEN rel[i] ELSE rel[i] \o <<47>> \o R(i + 1)
  IN R(1)

AllReadable == \A f \in tree : f.readable

\* The files in ascending order of the relative path taken as one string.
StatedOrder ==
  CHOOSE s \in Enumerations(tree) :
    \A i, j \in 1..Len(s) : i < j => StringBefore(RelString(s[i].rel), RelString(s[j].rel))

\* The header line, the content verbatim, one newline appended when the
\* content does not end with one, and a blank line.
StatedChunk(f) ==
  <<47, 47, 32>> \o RelString(f.rel) \o <<10>> \o f.raw
    \o (IF f.raw = <<>> \/ f.raw[Len(f.raw)] # 10 THEN <<10>> ELSE <<>>) \o <<10>>

\* C8 as stated: with every file readable, the finished lcsrc.txt is the
\* concatenation, over the files in ascending order of the relative path as
\* one string, of the header line, the content verbatim, one newline
\* appended when the content does not end with one, and a blank line.
C8_LcsrcAsStated ==
  (upc \in {"tar", "done"} /\ p # WINDOWS /\ AllReadable) =>
    lcsrc = Flatten([i \in 1..Len(StatedOrder) |-> StatedChunk(StatedOrder[i])])

\* The files in ascending order of their paths compared component by
\* component.
ComponentOrder ==
  CHOOSE s \in Enumerations(tree) :
    \A i, j \in 1..Len(s) : i < j => ComponentsBefore(s[i].rel, s[j].rel)

\* The header line, the content as read in text mode, one newline appended
\* when that content is not empty and does not end with one, and one more
\* newline.
TextModeChunk(f) ==
  LET content == UniversalNewlines(f.raw)
  IN <<47, 47, 32>> \o RelString(f.rel) \o <<10>> \o content
       \o (IF content # <<>> /\ content[Len(content)] # 10 THEN <<10>> ELSE <<>>)
       \o <<10>>

\* C8 amended: on a POSIX host, with every file readable, the finished
\* lcsrc.txt is the concatenation, over the files in ascending order of
\* their paths compared component by component, of the header line, the
\* content as read in text mode (CR LF and CR become LF), one newline
\* appended when that content is not empty and does not end with one, and
\* one more newline; it depends on the tree alone (not on the enumeration
\* order or on an earlier lcsrc.txt), so a second generation writes the same
\* bytes.
C8_LcsrcAmended ==
  (upc \in {"tar", "done"} /\ p # WINDOWS /\ AllReadable) =>
    lcsrc = Flatten([i \in 1..Len(ComponentOrder) |-> TextModeChunk(ComponentOrder[i])])

\* C8 witness: a generation has finished over a stale lcsrc.txt and a tree of
\* the two readable files a.b and a/b, one empty, one ending in CR.
C8_Witness ==
  /\ upc = "tar"
  /\ fs[LCSRC] = "written"
  /\ tree = {[rel |-> <<NameADotB>>, raw |-> <<>>, readable |-> TRUE],
             [rel |-> << <<ChA>>, <<ChB>> >>, raw |-> <<ChX, CR>>, readable |-> TRUE]}
  /\ Len(lcsrc) > 0
====
